---- MODULE Spec2Model ----
(***************************************************************************)
(* FormDatePicker (src/src/original-date-picker.component.tsx, 413-993):   *)
(* the canonical date codec, the blur/keyboard/calendar handlers and the   *)
(* two effects of the component, over JavaScript Date semantics.           *)
(*                                                                         *)
(* A string is a sequence of one-character strings.  null and undefined    *)
(* are the sequences NULL and UNDEFINED, which no text equals.  A Date is  *)
(* its time value in minutes since 1970-01-01T00:00Z (seconds and          *)
(* milliseconds are always zero in every Date the component builds from    *)
(* calendar fields); the local zone is a fixed offset tz in minutes.       *)
(***************************************************************************)
EXTENDS Integers, Sequences, FiniteSets, TLC

VARIABLES
    tz,            \* local timezone offset, minutes east of UTC
    locale,        \* detectedLocale
    defaultValue,  \* textFieldProps.defaultValue
    now,           \* wall clock (a Date)
    pc,            \* "unmounted" | "mounted" | "codec"
    fieldValue,    \* field.value (Formik)
    metaError,     \* meta.error
    touched,       \* meta.touched
    inputValue,    \* display buffer
    open,          \* Boolean(anchorEl)
    isFocused,
    calendarView,
    lastWritten,   \* history: the last argument of helpers.setValue
    cIn,           \* codec harness: the Date given to dateToISOString
    cStr,          \* codec harness: the string given to the decoder
    cOut,          \* codec harness: the decoder's result
    cStep,         \* codec harness: position
    changes        \* history: number of changes of field.value so far

envVars == <<tz, locale, defaultValue, now>>
compVars == <<fieldValue, metaError, touched, inputValue, open, isFocused, calendarView, lastWritten>>
codecVars == <<cIn, cStr, cOut, cStep>>
vars == <<tz, locale, defaultValue, now, pc, fieldValue, metaError, touched, inputValue, open, isFocused, calendarView, lastWritten, cIn, cStr, cOut, cStep, changes>>

(***************************************************************************)
(* Values                                                                  *)
(***************************************************************************)
NULL == <<"null">>
UNDEFINED == <<"undefined">>
EMPTY == << >>
InvalidDateFormat == <<"Invalid date format">>

\* the null a Date-returning function returns, and the NaN time of an Invalid Date
NullDate == -1
InvalidDate == -2

Digits == <<"0", "1", "2", "3", "4", "5", "6", "7", "8", "9">>
Upper == <<"A", "B", "C", "D", "E", "F", "G", "H", "I", "J", "K", "L", "M",
           "N", "O", "P", "Q", "R", "S", "T", "U", "V", "W", "X", "Y", "Z">>
Lower == <<"a", "b", "c", "d", "e", "f", "g", "h", "i", "j", "k", "l", "m",
           "n", "o", "p", "q", "r", "s", "t", "u", "v", "w", "x", "y", "z">>

IsString(v) == v # NULL /\ v # UNDEFINED
\* JavaScript truthiness of a string | null | undefined
Truthy(v) == IsString(v) /\ v # EMPTY

IsDigit(c) == \E i \in 1..10 : Digits[i] = c
DigitVal(c) == (CHOOSE i \in 1..10 : Digits[i] = c) - 1
AllDigits(s) == \A i \in 1..Len(s) : IsDigit(s[i])

\* Number("07") and parseInt("07") on an all-digit string
RECURSIVE ToNumber(_)
ToNumber(s) ==
    IF s = EMPTY THEN 0
    ELSE 10 * ToNumber(SubSeq(s, 1, Len(s) - 1)) + DigitVal(s[Len(s)])

\* String(n).padStart(w, "0") for n >= 0
RECURSIVE PadStart(_, _)
PadStart(n, w) ==
    IF w <= 1 /\ n < 10 THEN <<Digits[n + 1]>>
    ELSE PadStart(n \div 10, w - 1) \o <<Digits[(n % 10) + 1]>>

RECURSIVE TrimStart(_)
TrimStart(s) == IF s # EMPTY /\ Head(s) = " " THEN TrimStart(Tail(s)) ELSE s

RECURSIVE TrimEnd(_)
TrimEnd(s) ==
    IF s # EMPTY /\ s[Len(s)] = " " THEN TrimEnd(SubSeq(s, 1, Len(s) - 1)) ELSE s

Trim(s) == TrimEnd(TrimStart(s))

LowerChar(c) ==
    IF \E i \in 1..Len(Upper) : Upper[i] = c
    THEN Lower[CHOOSE i \in 1..Len(Upper) : Upper[i] = c]
    ELSE c

ToLowerCase(s) == [i \in 1..Len(s) |-> LowerChar(s[i])]

\* s.split(sep): the pieces of s between the occurrences of the character sep
RECURSIVE Split(_, _)
Split(s, sep) ==
    IF \A i \in 1..Len(s) : s[i] # sep THEN <<s>>
    ELSE LET k == CHOOSE i \in 1..Len(s) : s[i] = sep /\ \A j \in 1..(i - 1) : s[j] # sep
         IN  <<SubSeq(s, 1, k - 1)>> \o Split(SubSeq(s, k + 1, Len(s)), sep)

(***************************************************************************)
(* ECMAScript Date arithmetic (proleptic Gregorian calendar)               *)
(***************************************************************************)
IsLeap(y) == (y % 4 = 0 /\ y % 100 # 0) \/ y % 400 = 0

DaysInMonth(y, m) ==
    IF m = 2 THEN (IF IsLeap(y) THEN 29 ELSE 28)
    ELSE IF m \in {4, 6, 9, 11} THEN 30 ELSE 31

\* day number (days since 1970-01-01) of year y, month m in 1..12, day d (any integer)
DaysFromCivil(y, m, d) ==
    LET yy == IF m <= 2 THEN y - 1 ELSE y
        era == yy \div 400
        yoe == yy - era * 400
        mp == (m + 9) % 12
        doy == (153 * mp + 2) \div 5 + d - 1
        doe == yoe * 365 + yoe \div 4 - yoe \div 100 + doy
    IN  era * 146097 + doe - 719468

\* the calendar date [y, m, d] of a day number
CivilFromDays(z) ==
    LET z2 == z + 719468
        era == z2 \div 146097
        doe == z2 - era * 146097
        yoe == (doe - doe \div 1460 + doe \div 36524 - doe \div 146096) \div 365
        doy == doe - (365 * yoe + yoe \div 4 - yoe \div 100)
        mp == (5 * doy + 2) \div 153
        d == doy - (153 * mp + 2) \div 5 + 1
        m == IF mp < 10 THEN mp + 3 ELSE mp - 9
    IN  [y |-> IF m <= 2 THEN yoe + era * 400 + 1 ELSE yoe + era * 400, m |-> m, d |-> d]

\* MakeDay/MakeTime of ECMAScript: month index and day may lie outside their ranges
\* and roll over; a year 0..99 means 1900 + year
MakeTime(year, monthIndex, day, hours, minutes) ==
    LET y0 == IF year >= 0 /\ year <= 99 THEN 1900 + year ELSE year
        y1 == y0 + monthIndex \div 12
        m1 == (monthIndex % 12) + 1
    IN  (DaysFromCivil(y1, m1, 1) + day - 1) * 1440 + hours * 60 + minutes

\* Date.UTC(year, monthIndex, day, hours, 0, 0, 0)
DateUTC(year, monthIndex, day, hours) == MakeTime(year, monthIndex, day, hours, 0)

\* new Date(year, monthIndex, day): local midnight
NewDateLocal(year, monthIndex, day) == MakeTime(year, monthIndex, day, 0, 0) - tz

\* the local calendar fields of a Date: getFullYear(), getMonth() + 1, getDate()
LocalFields(t) == CivilFromDays((t + tz) \div 1440)
\* the local time of day of a Date, in minutes
LocalMinutes(t) == (t + tz) % 1440
\* the UTC calendar fields of a Date
UTCFields(t) == CivilFromDays(t \div 1440)

getFullYear(t) == LocalFields(t).y
getMonth(t) == LocalFields(t).m - 1
getDate(t) == LocalFields(t).d

\* Date.prototype.toISOString: YYYY-MM-DDTHH:mm:ss.sssZ in UTC
toISOString(t) ==
    LET f == UTCFields(t)
        hm == t % 1440
    IN  PadStart(f.y, 4) \o <<"-">> \o PadStart(f.m, 2) \o <<"-">> \o PadStart(f.d, 2)
        \o <<"T">> \o PadStart(hm \div 60, 2) \o <<":">> \o PadStart(hm % 60, 2)
        \o <<":", "0", "0", ".", "0", "0", "0", "Z">>

(***************************************************************************)
(* date-fns and dayjs, as the component uses them                          *)
(***************************************************************************)
Locales == {"enUS", "enGB"}

\* format(date, 'P', { locale }): the locale's short date, from the local fields
format(t, loc) ==
    LET f == LocalFields(t)
    IN  IF loc = "enGB"
        THEN PadStart(f.d, 2) \o <<"/">> \o PadStart(f.m, 2) \o <<"/">> \o PadStart(f.y, 4)
        ELSE PadStart(f.m, 2) \o <<"/">> \o PadStart(f.d, 2) \o <<"/">> \o PadStart(f.y, 4)

\* parse(value, 'P', new Date(), { locale }): the locale's short date, strictly;
\* an Invalid Date when the text is not one or names no real day
parse(value, loc) ==
    LET parts == Split(value, "/")
    IN  IF Len(parts) = 3
           /\ \A i \in 1..3 : parts[i] # EMPTY /\ AllDigits(parts[i])
           /\ Len(parts[1]) <= 2 /\ Len(parts[2]) <= 2 /\ Len(parts[3]) <= 4
        THEN LET a == ToNumber(parts[1])
                 b == ToNumber(parts[2])
                 y == ToNumber(parts[3])
                 m == IF loc = "enGB" THEN b ELSE a
                 d == IF loc = "enGB" THEN a ELSE b
             IN  IF m >= 1 /\ m <= 12 /\ d >= 1 /\ d <= DaysInMonth(y, m)
                 THEN DaysFromCivil(y, m, d) * 1440 - tz
                 ELSE InvalidDate
        ELSE InvalidDate

\* month arithmetic that lets the day run over into the following month, as
\* Date.prototype.setMonth does
addMonths_rollover(t, n) ==
    LET f == LocalFields(t)
        mi == f.m - 1 + n
    IN  (DaysFromCivil(f.y + mi \div 12, (mi % 12) + 1, 1) + f.d - 1) * 1440 + LocalMinutes(t) - tz

\* addMonths(date, n), and dayjs(date).add(n, 'month'): the same local day of the
\* target month, or its last day when that day does not exist; the time is kept
addMonths(t, n) ==
    LET f == LocalFields(t)
        mi == f.m - 1 + n
        y1 == f.y + mi \div 12
        m1 == (mi % 12) + 1
        dim == DaysInMonth(y1, m1)
        d1 == IF f.d < dim THEN f.d ELSE dim
    IN  DaysFromCivil(y1, m1, d1) * 1440 + LocalMinutes(t) - tz

\* addYears(date, n), and dayjs(date).add(n, 'year')
addYears(t, n) == addMonths(t, 12 * n)

\* dayjs(date).add(n, 'day')
addDays(t, n) == t + n * 1440

(***************************************************************************)
(* The canonical date codec                                                *)
(***************************************************************************)
\* /^(\d{4}-\d{2}-\d{2})/
IsoPrefixMatch(s) ==
    /\ Len(s) >= 10
    /\ AllDigits(SubSeq(s, 1, 4)) /\ s[5] = "-"
    /\ AllDigits(SubSeq(s, 6, 7)) /\ s[8] = "-"
    /\ AllDigits(SubSeq(s, 9, 10))

\* /^(\d{1,2})\/(\d{1,2})\/(\d{4})$/
LocalizedMatch(s) ==
    LET parts == Split(s, "/")
    IN  /\ Len(parts) = 3
        /\ \A i \in 1..3 : AllDigits(parts[i])
        /\ Len(parts[1]) \in 1..2 /\ Len(parts[2]) \in 1..2 /\ Len(parts[3]) = 4

NoonOfPrefix(s) ==
    DateUTC(ToNumber(SubSeq(s, 1, 4)), ToNumber(SubSeq(s, 6, 7)) - 1, ToNumber(SubSeq(s, 9, 10)), 12)

\* dateToISOString without the re-anchoring at UTC midnight
dateToISOString_raw(date) == toISOString(date)

\* dateToISOString reading the UTC fields instead of the local ones
dateToISOString_utc(date) ==
    toISOString(DateUTC(UTCFields(date).y, UTCFields(date).m - 1, UTCFields(date).d, 0))

dateToISOString(date) ==
    toISOString(DateUTC(getFullYear(date), getMonth(date), getDate(date), 0))

parseDateFromISO(isoString) ==
    IF ~Truthy(isoString) THEN NullDate
    ELSE IF ~IsoPrefixMatch(isoString) THEN NullDate
    ELSE NoonOfPrefix(isoString)

parseDateString(dateString) ==
    IF ~Truthy(dateString) THEN NullDate
    ELSE IF IsoPrefixMatch(dateString) THEN NoonOfPrefix(dateString)
    ELSE IF LocalizedMatch(dateString)
    THEN LET parts == Split(dateString, "/")
             month == ToNumber(parts[1])
             day == ToNumber(parts[2])
             year == ToNumber(parts[3])
         IN  IF month < 1 \/ month > 12 \/ day < 1 \/ day > 31 THEN NullDate
             ELSE DateUTC(year, month - 1, day, 12)
    ELSE NullDate

(***************************************************************************)
(* Bounds and inputs                                                       *)
(***************************************************************************)
\* number of changes of the field value explored in one run
MaxChanges == 2

\* UTC-12:00, UTC+05:30 (India), UTC+12:00 (New Zealand standard time)
TZOffsets == {-720, 330, 720}

T_iso_api == <<"2", "0", "2", "5", "-", "0", "7", "-", "0", "8", "T", "1", "8", ":", "3", "0", ":", "0", "0", "Z">>
T_iso_range == <<"2", "0", "2", "5", "-", "1", "3", "-", "4", "5">>
T_iso_short == <<"2", "0", "2", "5", "-", "7", "-", "8">>
T_iso_leap == <<"2", "0", "2", "4", "-", "0", "2", "-", "2", "9", "T", "2", "3", ":", "5", "9", ":", "0", "0", "+", "0", "5", ":", "3", "0">>
T_full == <<"0", "7", "/", "0", "8", "/", "2", "0", "2", "5">>
T_feb30 == <<"0", "2", "/", "3", "0", "/", "2", "0", "2", "5">>
T_noyear == <<"4", "/", "5">>
T_range == <<"1", "3", "/", "4", "5", "/", "2", "0", "2", "5">>
T_invalid == <<"i", "n", "v", "a", "l", "i", "d">>
T_m1 == <<"M", "1", " ">>
T_y0050 == <<"0", "1", "/", "0", "2", "/", "0", "0", "5", "0">>

T_d == <<"d">>
T_d1 == <<"d", "1">>
T_d30 == <<"D", "3", "0">>
T_m == <<"m">>
T_y == <<"y">>
T_y1 == <<"y", "1">>

\* the shortcut tokens an input-change event can deliver, and the empty text
ShortcutTexts == {EMPTY, T_d, T_d1, T_d30, T_m, T_m1, T_y, T_y1}

\* the texts an input-change event can deliver
Texts == {EMPTY, T_full, T_feb30, T_y0050, T_noyear, T_range, T_invalid, T_m1}

\* textFieldProps.defaultValue, and the form's initial value of the field
DefaultValues == {UNDEFINED, EMPTY, T_iso_api}
InitialValues == {NULL, toISOString(DateUTC(2024, 0, 31, 0))}

\* the days the calendar popup offers, as [y, m, d]
CalendarDays == {[y |-> 2025, m |-> 7, d |-> 8], [y |-> 2024, m |-> 2, d |-> 29]}

\* the instant the wall clock shows when the field is constructed
ClockStart == MakeTime(2024, 0, 31, 10, 0)

\* the instants the wall clock passes through
ClockTimes == {MakeTime(2024, 0, 31, 10, 0), MakeTime(2024, 1, 29, 12, 0), MakeTime(2024, 11, 31, 20, 0)}

DateViews == {"year", "month", "day"}

(***************************************************************************)
(* The component                                                           *)
(***************************************************************************)
\* parseShortcut counting one unit when the token has no digits
parseShortcut_one(input) ==
    LET trimmed == ToLowerCase(Trim(input))
    IN  IF trimmed = EMPTY \/ ~(Head(trimmed) \in {"d", "m", "y"}) \/ ~AllDigits(Tail(trimmed))
        THEN NullDate
        ELSE LET num == IF Tail(trimmed) # EMPTY THEN ToNumber(Tail(trimmed)) ELSE 1
             IN  IF Head(trimmed) = "d" THEN addDays(now, num)
                 ELSE IF Head(trimmed) = "m" THEN addMonths(now, num)
                 ELSE addYears(now, num)

\* parseShortcut matching the text without lowercasing it
parseShortcut_caseSensitive(input) ==
    LET trimmed == Trim(input)
    IN  IF trimmed = EMPTY \/ ~(Head(trimmed) \in {"d", "m", "y"}) \/ ~AllDigits(Tail(trimmed))
        THEN NullDate
        ELSE LET num == IF Tail(trimmed) # EMPTY THEN ToNumber(Tail(trimmed)) ELSE 0
             IN  IF Head(trimmed) = "d" THEN addDays(now, num)
                 ELSE IF Head(trimmed) = "m" THEN addMonths(now, num)
                 ELSE addYears(now, num)

\* parseShortcut resolving against the date the clock showed at construction
parseShortcut_cached(input) ==
    LET trimmed == ToLowerCase(Trim(input))
    IN  IF trimmed = EMPTY \/ ~(Head(trimmed) \in {"d", "m", "y"}) \/ ~AllDigits(Tail(trimmed))
        THEN NullDate
        ELSE LET num == IF Tail(trimmed) # EMPTY THEN ToNumber(Tail(trimmed)) ELSE 0
             IN  IF Head(trimmed) = "d" THEN addDays(ClockStart, num)
                 ELSE IF Head(trimmed) = "m" THEN addMonths(ClockStart, num)
                 ELSE addYears(ClockStart, num)

\* parseShortcut: /^([dmy])(\d*)$/ on the trimmed, lowercased input
parseShortcut(input) ==
    LET trimmed == ToLowerCase(Trim(input))
    IN  IF trimmed = EMPTY \/ ~(Head(trimmed) \in {"d", "m", "y"}) \/ ~AllDigits(Tail(trimmed))
        THEN NullDate
        ELSE LET num == IF Tail(trimmed) # EMPTY THEN ToNumber(Tail(trimmed)) ELSE 0
             IN  IF Head(trimmed) = "d" THEN addDays(now, num)
                 ELSE IF Head(trimmed) = "m" THEN addMonths(now, num)
                 ELSE addYears(now, num)

\* the sync effect: the display text for a field value
SyncEffect(value) ==
    LET valueToUse == IF IsString(value) THEN value
                      ELSE IF IsString(defaultValue) THEN defaultValue ELSE NULL
    IN  IF Truthy(valueToUse)
        THEN LET parsedDate == parseDateString(valueToUse)
             IN  IF parsedDate # NullDate THEN format(parsedDate, locale) ELSE EMPTY
        ELSE EMPTY

\* the mount effect letting a form initial value stand
MountEffect_initialWins(initial) ==
    IF defaultValue = UNDEFINED \/ initial # NULL THEN initial
    ELSE IF IsString(defaultValue) /\ Trim(defaultValue) # EMPTY
    THEN LET parsedDate == parseDateString(defaultValue)
         IN  IF parsedDate # NullDate THEN dateToISOString(parsedDate) ELSE NULL
    ELSE NULL

\* the mount effect: the value defaultValue gives the field, when it is defined
MountEffect(initial) ==
    IF defaultValue = UNDEFINED THEN initial
    ELSE IF IsString(defaultValue) /\ Trim(defaultValue) # EMPTY
    THEN LET parsedDate == parseDateString(defaultValue)
         IN  IF parsedDate # NullDate THEN dateToISOString(parsedDate) ELSE NULL
    ELSE NULL

\* a commit that leaves the format error as it was
Commit_keepError(date) ==
    [set |-> TRUE, value |-> dateToISOString(date), error |-> metaError, input |-> format(date, locale)]

\* what a handler does: whether it calls helpers.setValue and with what, the error
\* it leaves, and the text it gives setInputValue
Commit(date) ==
    [set |-> TRUE, value |-> dateToISOString(date), error |-> UNDEFINED, input |-> format(date, locale)]

Cleared == [set |-> TRUE, value |-> NULL, error |-> UNDEFINED, input |-> EMPTY]

\* a failed commit that also resets the field
Rejected_reset == [set |-> TRUE, value |-> NULL, error |-> InvalidDateFormat, input |-> EMPTY]

Rejected == [set |-> FALSE, value |-> fieldValue, error |-> InvalidDateFormat, input |-> inputValue]

Untouched == [set |-> FALSE, value |-> fieldValue, error |-> metaError, input |-> inputValue]

\* /^\d{1,2}\/\d{1,2}(\/\d{2,4})?$/
SlashMatch(value) ==
    LET parts == Split(value, "/")
    IN  /\ Len(parts) \in 2..3
        /\ \A i \in 1..Len(parts) : AllDigits(parts[i])
        /\ Len(parts[1]) \in 1..2 /\ Len(parts[2]) \in 1..2
        /\ Len(parts) = 3 => Len(parts[3]) \in 2..4

\* the year digits of a slash date, EMPTY when it has none
YearPart(value) == IF Len(Split(value, "/")) = 3 THEN Split(value, "/")[3] ELSE EMPTY

\* handleBlur, lines 806-842: the Date the text parses to
BlurParse(value) ==
    LET parts == Split(value, "/")
        currentYear == getFullYear(now)
    IN  IF SlashMatch(value) /\ Len(YearPart(value)) = 0
        THEN NewDateLocal(currentYear, ToNumber(parts[1]) - 1, ToNumber(parts[2]))
        ELSE IF SlashMatch(value) /\ Len(YearPart(value)) = 2
        THEN NewDateLocal(ToNumber(parts[3]) + 2000, ToNumber(parts[1]) - 1, ToNumber(parts[2]))
        ELSE IF SlashMatch(value) /\ Len(YearPart(value)) = 4
        THEN NewDateLocal(ToNumber(parts[3]), ToNumber(parts[1]) - 1, ToNumber(parts[2]))
        ELSE parse(value, locale)

\* handleBlur without the range validation of lines 806-817
RangeRejected_off(value) == FALSE

\* handleBlur, lines 806-817: the range validation of a slash date
RangeRejected(value) ==
    /\ SlashMatch(value)
    /\ LET month == ToNumber(Split(value, "/")[1])
           day == ToNumber(Split(value, "/")[2])
       IN  month < 1 \/ month > 12 \/ day < 1 \/ day > 31

\* handleBlur trying the locale grammar on a slash date that failed the range
\* validation
handleBlurOutcome_retry(text) ==
    LET value == Trim(text)
    IN  IF value = EMPTY THEN Cleared
        ELSE IF parseShortcut(value) # NullDate THEN Commit(parseShortcut(value))
        ELSE IF RangeRejected(value)
        THEN IF parse(value, locale) # InvalidDate THEN Commit(parse(value, locale)) ELSE Rejected
        ELSE IF BlurParse(value) # InvalidDate THEN Commit(BlurParse(value))
        ELSE Rejected

handleBlurOutcome(text) ==
    LET value == Trim(text)
    IN  IF value = EMPTY THEN Cleared
        ELSE IF parseShortcut(value) # NullDate THEN Commit(parseShortcut(value))
        ELSE IF RangeRejected(value) THEN Rejected
        ELSE IF BlurParse(value) # InvalidDate THEN Commit(BlurParse(value))
        ELSE Rejected

\* handleInputChange normalising the text as it is typed
handleInputChangeText_trim(newValue) == Trim(newValue)

\* handleInputChange: the text given to setInputValue
handleInputChangeText(newValue) == newValue

\* handleInputChange validating as the user types
handleInputChangeError_validate(error) == InvalidDateFormat

\* handleInputChange leaving the error alone
handleInputChangeError_keep(error) == error

\* handleInputChange: the error left after a change event
handleInputChangeError(error) == IF error # UNDEFINED THEN UNDEFINED ELSE error

\* the Date a Ctrl+Arrow key moves a Date to
NavShift(currentDate, key) ==
    IF key = "ArrowLeft" THEN addMonths(currentDate, -1)
    ELSE IF key = "ArrowRight" THEN addMonths(currentDate, 1)
    ELSE IF key = "ArrowUp" THEN addYears(currentDate, 1)
    ELSE addYears(currentDate, -1)

\* handleKeyDown navigating from the typed text when no date is committed
handleNavOutcome_parseText(key) ==
    IF Truthy(fieldValue) /\ parseDateString(fieldValue) # NullDate
    THEN Commit(NavShift(parseDateString(fieldValue), key))
    ELSE IF parseDateString(Trim(inputValue)) # NullDate
    THEN Commit(NavShift(parseDateString(Trim(inputValue)), key))
    ELSE Untouched

\* handleKeyDown, Ctrl+ArrowLeft/Right and Ctrl+ArrowUp/Down
handleNavOutcome(key) ==
    IF Truthy(fieldValue) /\ parseDateString(fieldValue) # NullDate
    THEN Commit(NavShift(parseDateString(fieldValue), key))
    ELSE Untouched

\* Tab and Enter committing whatever text the buffer holds, as a blur does
handleShortcutKeyOutcome_commitAny(key, text) == handleBlurOutcome(text)

\* handleKeyDown, Tab and Enter
handleShortcutKeyOutcome(key, text) ==
    IF key \in {"Tab", "Enter"} /\ parseShortcut(Trim(text)) # NullDate THEN Commit(parseShortcut(Trim(text)))
    ELSE Untouched

\* handleDateChange in the 'day' view
handleDateChangeOutcome(date) ==
    IF date # NullDate THEN Commit(date) ELSE Cleared

\* the state a handler leaves: Formik's value and error, then the sync effect,
\* which runs when field.value has changed
Apply(o) ==
    /\ fieldValue' = o.value
    /\ metaError' = o.error
    /\ inputValue' = IF o.value # fieldValue THEN SyncEffect(o.value) ELSE o.input
    /\ lastWritten' = IF o.set THEN o.value ELSE lastWritten
    /\ o.value # fieldValue => changes < MaxChanges
    /\ changes' = IF o.value # fieldValue THEN changes + 1 ELSE changes

(***************************************************************************)
(* Actions                                                                 *)
(***************************************************************************)
CodecIdle == cIn = NullDate /\ cStr = NULL /\ cOut = NullDate /\ cStep = "idle"

\* the form before the field is rendered: Formik holds the initial value
Init ==
    /\ tz \in TZOffsets
    /\ locale \in Locales
    /\ defaultValue \in DefaultValues
    /\ now = MakeTime(2024, 0, 31, 10, 0)
    /\ pc = "unmounted"
    /\ fieldValue \in InitialValues
    /\ metaError = UNDEFINED
    /\ touched = FALSE
    /\ inputValue = EMPTY
    /\ open = FALSE
    /\ isFocused = FALSE
    /\ calendarView = "day"
    /\ lastWritten = UNDEFINED
    /\ changes = 0
    /\ CodecIdle

\* first render: the mount effect, then the sync effect on the value it leaves
Mount ==
    /\ pc = "unmounted"
    /\ pc' = "mounted"
    /\ fieldValue' = MountEffect(fieldValue)
    /\ lastWritten' = IF defaultValue # UNDEFINED THEN MountEffect(fieldValue) ELSE lastWritten
    /\ inputValue' = SyncEffect(MountEffect(fieldValue))
    /\ UNCHANGED <<metaError, touched, open, isFocused, calendarView, changes>>
    /\ UNCHANGED <<envVars, codecVars>>

handleFocus ==
    /\ pc = "mounted" /\ ~isFocused /\ ~open
    /\ isFocused' = TRUE
    /\ UNCHANGED <<fieldValue, metaError, touched, inputValue, open, calendarView, lastWritten, changes>>
    /\ UNCHANGED <<pc, envVars, codecVars>>

handleInputChangeTo(newValue) ==
    /\ pc = "mounted" /\ isFocused
    /\ newValue # inputValue
    /\ inputValue' = handleInputChangeText(newValue)
    /\ metaError' = handleInputChangeError(metaError)
    /\ UNCHANGED <<fieldValue, touched, open, isFocused, calendarView, lastWritten, changes>>
    /\ UNCHANGED <<pc, envVars, codecVars>>

handleInputChange == \E newValue \in Texts : handleInputChangeTo(newValue)

handleBlur ==
    /\ pc = "mounted" /\ isFocused
    /\ isFocused' = FALSE
    /\ touched' = TRUE
    /\ Apply(handleBlurOutcome(inputValue))
    /\ UNCHANGED <<open, calendarView>>
    /\ UNCHANGED <<pc, envVars, codecVars>>

\* handleKeyDown with Ctrl and an arrow key
handleKeyDownNav ==
    /\ pc = "mounted" /\ isFocused
    /\ \E key \in {"ArrowLeft", "ArrowRight", "ArrowUp", "ArrowDown"} :
        /\ Apply(handleNavOutcome(key))
    /\ UNCHANGED <<touched, open, isFocused, calendarView>>
    /\ UNCHANGED <<pc, envVars, codecVars>>

\* handleKeyDown with Tab or Enter
handleKeyDownShortcut ==
    /\ pc = "mounted" /\ isFocused
    /\ \E key \in {"Tab", "Enter"} : Apply(handleShortcutKeyOutcome(key, inputValue))
    /\ UNCHANGED <<touched, open, isFocused, calendarView>>
    /\ UNCHANGED <<pc, envVars, codecVars>>

\* the clear button is rendered while the input has text and focus
clearDate ==
    /\ pc = "mounted" /\ isFocused /\ inputValue # EMPTY
    /\ Apply(Cleared)
    /\ UNCHANGED <<touched, open, isFocused, calendarView>>
    /\ UNCHANGED <<pc, envVars, codecVars>>

\* opening the calendar in the view it was left in
handleOpenCalendar_keepView ==
    /\ pc = "mounted" /\ ~isFocused /\ ~open
    /\ open' = TRUE
    /\ UNCHANGED <<fieldValue, metaError, touched, inputValue, isFocused, calendarView, lastWritten, changes>>
    /\ UNCHANGED <<pc, envVars, codecVars>>

\* a click on the calendar button, which takes the focus from the input first
handleOpenCalendar ==
    /\ pc = "mounted" /\ ~isFocused /\ ~open
    /\ open' = TRUE
    /\ calendarView' = "day"
    /\ UNCHANGED <<fieldValue, metaError, touched, inputValue, isFocused, lastWritten, changes>>
    /\ UNCHANGED <<pc, envVars, codecVars>>

\* Popover onClose
closeCalendar ==
    /\ pc = "mounted" /\ open
    /\ open' = FALSE
    /\ UNCHANGED <<fieldValue, metaError, touched, inputValue, isFocused, calendarView, lastWritten, changes>>
    /\ UNCHANGED <<pc, envVars, codecVars>>

handleViewChange ==
    /\ pc = "mounted" /\ open
    /\ \E newView \in DateViews : newView # calendarView /\ calendarView' = newView
    /\ UNCHANGED <<fieldValue, metaError, touched, inputValue, open, isFocused, lastWritten, changes>>
    /\ UNCHANGED <<pc, envVars, codecVars>>

\* DateCalendar onChange committing in every view
handleDateChange_anyView ==
    /\ pc = "mounted" /\ open
    /\ \E day \in CalendarDays :
        /\ Apply(handleDateChangeOutcome(NewDateLocal(day.y, day.m - 1, day.d)))
        /\ open' = FALSE
    /\ UNCHANGED <<touched, isFocused, calendarView>>
    /\ UNCHANGED <<pc, envVars, codecVars>>

\* DateCalendar onChange: the Date of the picked day, in local time
handleDateChange ==
    /\ pc = "mounted" /\ open
    /\ \E day \in CalendarDays :
        IF calendarView = "day"
        THEN /\ Apply(handleDateChangeOutcome(NewDateLocal(day.y, day.m - 1, day.d)))
             /\ open' = FALSE
        ELSE UNCHANGED <<fieldValue, metaError, inputValue, open, lastWritten, changes>>
    /\ UNCHANGED <<touched, isFocused, calendarView>>
    /\ UNCHANGED <<pc, envVars, codecVars>>

Next ==
    \/ Mount
    \/ handleFocus
    \/ handleInputChange
    \/ handleBlur
    \/ handleKeyDownNav
    \/ handleKeyDownShortcut
    \/ clearDate
    \/ handleOpenCalendar
    \/ closeCalendar
    \/ handleViewChange
    \/ handleDateChange

\* the component in every environment, the wall clock standing still
Spec == Init /\ [][Next]_vars

\* the user types a shortcut token
handleInputChangeShortcut == \E newValue \in ShortcutTexts : handleInputChangeTo(newValue)

\* time passes
Tick ==
    /\ pc = "mounted"
    /\ \E t \in ClockTimes : t > now /\ now' = t
    /\ UNCHANGED <<tz, locale, defaultValue, pc, compVars, changes, codecVars>>

\* the component in US English with no defaultValue and no initial value, the
\* clock running and the user typing shortcut tokens
ClockInit == Init /\ locale = "enUS" /\ defaultValue = UNDEFINED /\ fieldValue = NULL

ClockNext ==
    \/ Mount
    \/ handleFocus
    \/ handleInputChangeShortcut
    \/ handleBlur
    \/ handleKeyDownNav
    \/ handleKeyDownShortcut
    \/ clearDate
    \/ handleOpenCalendar
    \/ closeCalendar
    \/ handleViewChange
    \/ handleDateChange
    \/ Tick

ClockSpec == ClockInit /\ [][ClockNext]_vars

(***************************************************************************)
(* The codec on its own: dateToISOString, parseDateFromISO, parseDateString *)
(* applied to Dates and strings drawn from bounded sets                    *)
(***************************************************************************)
\* the offsets above, and UTC-05:00, UTC, UTC+14:00 (Kiribati)
CodecTZOffsets == TZOffsets \cup {-300, 0, 840}

CodecDays == {[y |-> 2025, m |-> 7, d |-> 8], [y |-> 2024, m |-> 2, d |-> 29], [y |-> 2024, m |-> 12, d |-> 31], [y |-> 2025, m |-> 1, d |-> 1]}

\* local times of day, in minutes: 00:00, 12:00, 23:59
CodecMinutes == {0, 720, 1439}

CodecStrings == {EMPTY, T_iso_api, T_iso_leap, T_iso_range, T_iso_short, T_full, T_range, T_invalid, toISOString(DateUTC(2025, 6, 8, 0))}

Decoders == {"parseDateFromISO", "parseDateString"}

Decode(fn, str) == IF fn = "parseDateFromISO" THEN parseDateFromISO(str) ELSE parseDateString(str)

CodecInit ==
    /\ tz \in CodecTZOffsets
    /\ locale \in Locales
    /\ defaultValue = UNDEFINED
    /\ now = MakeTime(2024, 0, 31, 10, 0)
    /\ pc = "codec"
    /\ fieldValue = NULL
    /\ metaError = UNDEFINED
    /\ touched = FALSE
    /\ inputValue = EMPTY
    /\ open = FALSE
    /\ isFocused = FALSE
    /\ calendarView = "day"
    /\ lastWritten = UNDEFINED
    /\ changes = 0
    /\ CodecIdle

\* encode a Date of the local calendar day
CodecEncode ==
    /\ pc = "codec" /\ cStep = "idle"
    /\ \E day \in CodecDays, minutes \in CodecMinutes :
        LET date == DaysFromCivil(day.y, day.m, day.d) * 1440 + minutes - tz
        IN  /\ cIn' = date
            /\ cStr' = dateToISOString(date)
    /\ cStep' = "encoded"
    /\ UNCHANGED <<cOut, pc, envVars, compVars, changes>>

\* decode what was encoded
CodecDecode ==
    /\ pc = "codec" /\ cStep = "encoded"
    /\ \E fn \in Decoders : cOut' = Decode(fn, cStr)
    /\ cStep' = "roundtrip"
    /\ UNCHANGED <<cIn, cStr, pc, envVars, compVars, changes>>

\* decode a string from outside
CodecParse ==
    /\ pc = "codec" /\ cStep = "idle"
    /\ \E fn \in Decoders, str \in CodecStrings :
        /\ cStr' = str
        /\ cOut' = Decode(fn, str)
    /\ cStep' = "parsed"
    /\ UNCHANGED <<cIn, pc, envVars, compVars, changes>>

CodecNext == CodecEncode \/ CodecDecode \/ CodecParse

CodecSpec == CodecInit /\ [][CodecNext]_vars

(***************************************************************************)
(* The first render on its own, over more values of defaultValue           *)
(***************************************************************************)
D_localized == <<"1", "1", "/", "2", "5", "/", "2", "0", "2", "5">>
D_blank == <<" ", " ">>
D_padded == <<" ", "2", "0", "2", "5", "-", "0", "7", "-", "0", "8">>

\* textFieldProps.defaultValue: not given, null, empty, blank, unparseable,
\* ISO with a time, localized
MountDefaultValues == {UNDEFINED, NULL, EMPTY, D_blank, T_invalid, D_padded, T_iso_api, D_localized}

MountInit ==
    /\ tz \in TZOffsets
    /\ locale \in Locales
    /\ defaultValue \in MountDefaultValues
    /\ now = MakeTime(2024, 0, 31, 10, 0)
    /\ pc = "unmounted"
    /\ fieldValue \in InitialValues
    /\ metaError = UNDEFINED
    /\ touched = FALSE
    /\ inputValue = EMPTY
    /\ open = FALSE
    /\ isFocused = FALSE
    /\ calendarView = "day"
    /\ lastWritten = UNDEFINED
    /\ changes = 0
    /\ CodecIdle

MountNext ==
    \/ Mount
    \/ handleFocus
    \/ handleBlur
    \/ handleOpenCalendar
    \/ closeCalendar

MountSpec == MountInit /\ [][MountNext]_vars

(***************************************************************************)
(* Commits by blur on their own, over texts of every grammar               *)
(***************************************************************************)
G_yy == <<"4", "/", "5", "/", "2", "3">>
G_yyy == <<"4", "/", "5", "/", "2", "0", "2">>
G_dayfirst == <<"2", "5", "/", "1", "2", "/", "2", "0", "2", "5">>
G_iso == <<"2", "0", "2", "5", "-", "0", "7", "-", "0", "8">>

\* the texts an input-change event can deliver: a shortcut token, slash dates
\* with no year and with a year of 2, 3 and 4 digits, a date that is in range
\* only when read day first, an ISO date, and text of no grammar
GrammarTexts == {EMPTY, T_m1, T_noyear, G_yy, G_yyy, T_full, G_dayfirst, T_range, G_iso, T_invalid}

handleInputChangeGrammar == \E newValue \in GrammarTexts : handleInputChangeTo(newValue)

\* no defaultValue and no initial value
GrammarInit == Init /\ defaultValue = UNDEFINED /\ fieldValue = NULL

GrammarNext ==
    \/ Mount
    \/ handleFocus
    \/ handleInputChangeGrammar
    \/ handleBlur

GrammarSpec == GrammarInit /\ [][GrammarNext]_vars

(***************************************************************************)
(* parseShortcut on its own, applied to inputs drawn from a bounded set    *)
(***************************************************************************)
\* shortcut tokens in several spellings, and inputs that are no token
ShortcutInputs ==
    {T_d, <<"D">>, <<" ", "d", " ">>, T_d1, <<"D", "1">>, <<" ", "d", "1">>, T_d30, <<"d", "3", "0">>,
     T_m, <<"M">>, T_m1, <<"m", "1">>, <<"m", "1", "2">>, <<"M", "1", "2", " ">>,
     T_y, <<"Y">>, T_y1, <<"Y", "1">>, <<" ", "y", "1", " ">>,
     EMPTY, <<" ">>, <<"x", "1">>, <<"d", "d">>, <<"d", "1", "x">>, <<"1", "d">>, <<"d", " ", "1">>,
     <<"d", "-", "1">>, <<"d", "1", ".", "5">>, <<"t", "o", "d", "a", "y">>, T_full}

ShortcutInit ==
    /\ tz \in TZOffsets
    /\ locale = "enUS"
    /\ defaultValue = UNDEFINED
    /\ now \in ClockTimes
    /\ pc = "shortcut"
    /\ fieldValue = NULL
    /\ metaError = UNDEFINED
    /\ touched = FALSE
    /\ inputValue = EMPTY
    /\ open = FALSE
    /\ isFocused = FALSE
    /\ calendarView = "day"
    /\ lastWritten = UNDEFINED
    /\ changes = 0
    /\ cIn = NullDate /\ cOut = NullDate /\ cStep = "idle"
    /\ cStr \in ShortcutInputs

\* parseShortcut(input)
ShortcutParse ==
    /\ pc = "shortcut" /\ cStep = "idle"
    /\ cOut' = parseShortcut(cStr)
    /\ cStep' = "resolved"
    /\ UNCHANGED <<envVars, pc, compVars, changes, cIn, cStr>>

ShortcutNext == ShortcutParse

ShortcutSpec == ShortcutInit /\ [][ShortcutNext]_vars

(***************************************************************************)
(* The locale resolver on its own: getLocaleFromBrowser applied to         *)
(* navigator.language values drawn from a bounded set                      *)
(***************************************************************************)
\* localeMap[key], "undefined" when the table has no such key
localeMap(key) ==
    IF key = <<"e", "n", "-", "u", "s">> THEN "enUS"
    ELSE IF key = <<"e", "n", "-", "g", "b">> THEN "enGB"
    ELSE IF key = <<"f", "r">> THEN "fr"
    ELSE IF key = <<"d", "e">> THEN "de"
    ELSE IF key = <<"e", "s">> THEN "es"
    ELSE IF key = <<"i", "t">> THEN "it"
    ELSE IF key = <<"j", "a">> THEN "ja"
    ELSE IF key = <<"z", "h", "-", "c", "n">> THEN "zhCN"
    ELSE IF key = <<"z", "h", "-", "t", "w">> THEN "zhTW"
    ELSE IF key = <<"p", "t", "-", "b", "r">> THEN "ptBR"
    ELSE "undefined"

\* the resolver looking the tag up as it is written
getLocaleFromBrowser_caseSensitive(language) ==
    LET lang == IF language # EMPTY THEN language ELSE <<"e", "n", "-", "U", "S">>
    IN  IF localeMap(lang) # "undefined" THEN localeMap(lang)
        ELSE IF localeMap(Split(lang, "-")[1]) # "undefined" THEN localeMap(Split(lang, "-")[1])
        ELSE "enUS"

\* getLocaleFromBrowser, navigator.language given
getLocaleFromBrowser(language) ==
    LET lang == ToLowerCase(IF language # EMPTY THEN language ELSE <<"e", "n", "-", "U", "S">>)
    IN  IF localeMap(lang) # "undefined" THEN localeMap(lang)
        ELSE IF localeMap(Split(lang, "-")[1]) # "undefined" THEN localeMap(Split(lang, "-")[1])
        ELSE "enUS"

\* primary subtags and the rest of a tag, in several spellings
PrimarySubtags ==
    {<<"e", "n">>, <<"E", "N">>, <<"f", "r">>, <<"F", "r">>, <<"d", "e">>, <<"e", "s">>, <<"i", "t">>,
     <<"j", "a">>, <<"J", "A">>, <<"z", "h">>, <<"Z", "H">>, <<"p", "t">>, <<"n", "l">>, <<"h", "i">>}

Subtags ==
    {EMPTY, <<"-", "U", "S">>, <<"-", "u", "s">>, <<"-", "G", "B">>, <<"-", "g", "b">>, <<"-", "C", "A">>,
     <<"-", "C", "N">>, <<"-", "T", "W">>, <<"-", "t", "w">>, <<"-", "B", "R">>, <<"-", "I", "N">>,
     <<"-", "H", "a", "n", "s", "-", "C", "N">>, <<"_", "G", "B">>}

\* the values of navigator.language
LanguageTags == {p \o r : p \in PrimarySubtags, r \in Subtags} \cup {EMPTY}

\* the locale prop of the component, "undefined" when it is not given
LocaleProps == {"undefined", "enGB"}

LocaleInit ==
    /\ tz = 0
    /\ locale \in LocaleProps
    /\ defaultValue = UNDEFINED
    /\ now = MakeTime(2024, 0, 31, 10, 0)
    /\ pc = "locale"
    /\ fieldValue = NULL
    /\ metaError = UNDEFINED
    /\ touched = FALSE
    /\ inputValue = EMPTY
    /\ open = FALSE
    /\ isFocused = FALSE
    /\ calendarView = "day"
    /\ lastWritten = UNDEFINED
    /\ changes = 0
    /\ cIn = NullDate /\ cOut = NullDate /\ cStep = "idle"
    /\ cStr \in LanguageTags

\* const detectedLocale = locale || getLocaleFromBrowser()
DetectLocale ==
    /\ pc = "locale" /\ cStep = "idle"
    /\ cStep' = "resolved"
    /\ locale' = IF locale # "undefined" THEN locale ELSE getLocaleFromBrowser(cStr)
    /\ UNCHANGED <<tz, defaultValue, now, pc, compVars, changes, cIn, cStr, cOut>>

LocaleNext == DetectLocale

LocaleSpec == LocaleInit /\ [][LocaleNext]_vars

(***************************************************************************)
(* What the claims speak of                                                *)
(***************************************************************************)
MidnightSuffix == <<"T", "0", "0", ":", "0", "0", ":", "0", "0", ".", "0", "0", "0", "Z">>

\* "YYYY-MM-DDT00:00:00.000Z" of a calendar day
CanonicalOf(f) ==
    PadStart(f.y, 4) \o <<"-">> \o PadStart(f.m, 2) \o <<"-">> \o PadStart(f.d, 2) \o MidnightSuffix

\* an ISO-8601 instant with a Z suffix and time of day 00:00:00.000
IsCanonicalMidnight(str) ==
    Len(str) = 24 /\ IsoPrefixMatch(str) /\ SubSeq(str, 11, 24) = MidnightSuffix

\* the short date of a calendar day in a locale
RenderOf(f, loc) ==
    IF loc = "enGB"
    THEN PadStart(f.d, 2) \o <<"/">> \o PadStart(f.m, 2) \o <<"/">> \o PadStart(f.y, 4)
    ELSE PadStart(f.m, 2) \o <<"/">> \o PadStart(f.d, 2) \o <<"/">> \o PadStart(f.y, 4)

\* the year, month and day a YYYY-MM-DD prefix names
PrefixFields(str) ==
    [y |-> ToNumber(SubSeq(str, 1, 4)), m |-> ToNumber(SubSeq(str, 6, 7)), d |-> ToNumber(SubSeq(str, 9, 10))]

\* the year, month and day a typed MM/DD/YYYY names
TypedFields(text) ==
    [y |-> ToNumber(Split(text, "/")[3]), m |-> ToNumber(Split(text, "/")[1]), d |-> ToNumber(Split(text, "/")[2])]

\* a day of the calendar
RealDay(f) == f.m \in 1..12 /\ f.d \in 1..DaysInMonth(f.y, f.m)

\* text that handleBlur neither clears, resolves as a shortcut nor parses
FailsToParse(text) ==
    /\ Trim(text) # EMPTY
    /\ parseShortcut(Trim(text)) = NullDate
    /\ RangeRejected(Trim(text)) \/ BlurParse(Trim(text)) = InvalidDate

(***************************************************************************)
(* Claims                                                                  *)
(***************************************************************************)
\* C1: round trip: for every calendar date d and every local timezone offset,
\* decoding the string that dateToISOString gives for d and reading the result
\* as a local calendar date gives the year, month and day of d.
C1_RoundTrip ==
    cStep = "roundtrip" => cOut # NullDate /\ LocalFields(cOut) = LocalFields(cIn)

\* C2: decoding an ISO string with a time or offset suffix gives, in every local
\* timezone, the calendar date of its YYYY-MM-DD prefix, and the field's rendering
\* of the decoded Date is that date.
C2_PrefixIsAuthoritative ==
    (cStep = "parsed" /\ IsoPrefixMatch(cStr) /\ Len(cStr) > 10 /\ RealDay(PrefixFields(cStr)))
        => /\ cOut # NullDate
           /\ LocalFields(cOut) = PrefixFields(cStr)
           /\ format(cOut, locale) = RenderOf(PrefixFields(cStr), locale)

\* C3: every value the component gives helpers.setValue is null or an ISO-8601
\* instant with a Z suffix and time of day 00:00:00.000.
C3_WrittenValuesCanonical ==
    lastWritten \in {UNDEFINED, NULL} \/ IsCanonicalMidnight(lastWritten)

C3_Witness == IsString(lastWritten) /\ touched /\ changes = MaxChanges

C5_MountNormalizesDefault ==
    [][(Mount /\ IsString(defaultValue) /\ IsoPrefixMatch(defaultValue) /\ RealDay(PrefixFields(defaultValue)))
        => /\ fieldValue' = CanonicalOf(PrefixFields(defaultValue))
           /\ inputValue' = RenderOf(PrefixFields(defaultValue), locale)]_vars

\* C6: the decoders return null for every string that does not begin with a
\* well-formed YYYY-MM-DD prefix and for every string whose prefix has a month
\* outside 1..12 or a day outside 1..31.
C6_DecodeRejectsMalformed ==
    (cStep = "parsed"
        /\ (~IsoPrefixMatch(cStr) \/ ~(PrefixFields(cStr).m \in 1..12) \/ ~(PrefixFields(cStr).d \in 1..31)))
        => cOut = NullDate

\* C7 as stated: an input-change event leaves the committed value alone and
\* changes only the display buffer, which then is the typed text.
C7_TypingChangesOnlyBuffer ==
    [][\A text \in Texts : handleInputChangeTo(text)
        => /\ inputValue' = text
           /\ UNCHANGED <<fieldValue, lastWritten, metaError, touched, open, isFocused, calendarView>>]_vars

\* C7 amended: an input-change event leaves the committed value alone; it makes
\* the display buffer the typed text and clears the field's error, and changes
\* nothing else.
C7_TypingChangesBufferAndError ==
    [][\A text \in Texts : handleInputChangeTo(text)
        => /\ inputValue' = text
           /\ metaError' = UNDEFINED
           /\ UNCHANGED <<fieldValue, lastWritten, touched, open, isFocused, calendarView>>]_vars

C7_Witness ==
    /\ isFocused /\ touched /\ inputValue = T_m1 /\ metaError = UNDEFINED
    /\ fieldValue = NULL /\ lastWritten = UNDEFINED

\* C8 as stated: after the mount, the committed value changes only at a loss of
\* focus, an explicit selection (a calendar day, the clear button) or Tab/Enter
\* pressed with text that resolves to a shortcut token.
C8_ChangesOnlyAtCommit ==
    [][fieldValue' # fieldValue
        => \/ Mount
           \/ handleBlur
           \/ handleDateChange
           \/ clearDate
           \/ (handleKeyDownShortcut /\ parseShortcut(Trim(inputValue)) # NullDate)]_vars

\* C8 amended: after the mount, the committed value changes only at a loss of
\* focus, an explicit selection (a calendar day, the clear button), Tab/Enter
\* pressed with text that resolves to a shortcut token, or Ctrl+Arrow pressed
\* while a date is committed.
C8_ChangesOnlyAtCommitOrNav ==
    [][fieldValue' # fieldValue
        => \/ Mount
           \/ handleBlur
           \/ handleDateChange
           \/ clearDate
           \/ (handleKeyDownShortcut /\ parseShortcut(Trim(inputValue)) # NullDate)
           \/ (handleKeyDownNav /\ Truthy(fieldValue))]_vars

C8_Witness ==
    /\ isFocused /\ ~touched /\ changes = 1
    /\ fieldValue = CanonicalOf([y |-> 2025, m |-> 1, d |-> 31])

\* C9: the "Invalid date format" error is never set by an input-change event; it
\* is set only by a blur on text that fails to parse, and the field is touched
\* whenever it is set, so it is shown only then.
C9_ErrorOnlyAfterFailedBlur ==
    [][metaError' = InvalidDateFormat
        => /\ touched'
           /\ ~handleInputChange
           /\ metaError = InvalidDateFormat \/ (handleBlur /\ FailsToParse(inputValue))]_vars

C9_Witness ==
    metaError = InvalidDateFormat /\ touched /\ ~isFocused /\ inputValue = T_invalid

\* C10 as stated: once set, the error stays until the next keystroke (typing,
\* Tab/Enter, Ctrl+Arrow), and an input-change event clears it.
C10_ErrorUntilKeystroke ==
    [][/\ (metaError = InvalidDateFormat /\ metaError' # InvalidDateFormat)
            => handleInputChange \/ handleKeyDownNav \/ handleKeyDownShortcut
       /\ (metaError = InvalidDateFormat /\ handleInputChange) => metaError' = UNDEFINED]_vars

\* C10 amended: once set, the error stays until the next input change, Ctrl+Arrow
\* commit, click on the clear button or calendar day selection, and an
\* input-change event clears it.
C10_ErrorUntilEditOrCommit ==
    [][/\ (metaError = InvalidDateFormat /\ metaError' # InvalidDateFormat)
            => handleInputChange \/ (handleKeyDownNav /\ Truthy(fieldValue)) \/ clearDate \/ handleDateChange
       /\ (metaError = InvalidDateFormat /\ handleInputChange) => metaError' = UNDEFINED]_vars

C10_Witness == metaError = InvalidDateFormat /\ isFocused /\ inputValue = T_range

\* C11: a blur on slash-delimited text whose first number is outside 1..12 or
\* whose second number is outside 1..31 sets the "Invalid date format" error and
\* commits nothing: helpers.setValue is not called and the value stays as it was.
C11_OutOfRangeRejected ==
    [][(handleBlur /\ SlashMatch(Trim(inputValue))
            /\ (~(ToNumber(Split(Trim(inputValue), "/")[1]) \in 1..12)
                \/ ~(ToNumber(Split(Trim(inputValue), "/")[2]) \in 1..31)))
        => /\ metaError' = InvalidDateFormat
           /\ fieldValue' = fieldValue
           /\ lastWritten' = lastWritten]_vars

C11_Witness ==
    /\ metaError = InvalidDateFormat /\ inputValue = T_range /\ touched /\ ~isFocused
    /\ fieldValue = NULL /\ lastWritten = UNDEFINED

\* C12: a blur on text that matches no grammar or fails the range validation
\* leaves the committed value as it was, calls helpers.setValue with nothing, and
\* leaves the display buffer holding the text as the user typed it.
C12_FailedCommitFrame ==
    [][(handleBlur /\ FailsToParse(inputValue))
        => /\ fieldValue' = fieldValue
           /\ lastWritten' = lastWritten
           /\ inputValue' = inputValue]_vars

C12_Witness ==
    /\ metaError = InvalidDateFormat /\ inputValue = T_invalid /\ touched /\ ~isFocused
    /\ IsString(fieldValue) /\ changes = 0

\* C13: a blur on empty or whitespace-only text sets the committed value to null,
\* empties the display buffer and leaves no error.
C13_EmptyCommit ==
    [][(handleBlur /\ Trim(inputValue) = EMPTY)
        => /\ fieldValue' = NULL
           /\ inputValue' = EMPTY
           /\ metaError' = UNDEFINED]_vars

\* the year, month and day a slash date names read month first: the current year
\* for "M/D", 2000 + YY for "M/D/YY", YYYY for "M/D/YYYY"
SlashFields(text) ==
    [y |-> IF Len(YearPart(text)) = 0 THEN getFullYear(now)
           ELSE IF Len(YearPart(text)) = 2 THEN 2000 + ToNumber(YearPart(text))
           ELSE ToNumber(YearPart(text)),
     m |-> ToNumber(Split(text, "/")[1]),
     d |-> ToNumber(Split(text, "/")[2])]

\* C14: a blur on "M/D", "M/D/YY" or "M/D/YYYY" with M in 1..12 and D a day of
\* that month commits the current year, 2000 + YY or YYYY with month M and day D.
C14_SlashGrammar ==
    [][(handleBlur /\ SlashMatch(Trim(inputValue)) /\ Len(YearPart(Trim(inputValue))) \in {0, 2, 4}
            /\ RealDay(SlashFields(Trim(inputValue))))
        => fieldValue' = CanonicalOf(SlashFields(Trim(inputValue)))]_vars

\* the year, month and day a slash date names read in a locale's order: group 1
\* is the day and group 2 the month in en-GB, the other way round in en-US
LocaleSlashFields(text, loc) ==
    IF loc = "enGB"
    THEN [y |-> SlashFields(text).y, m |-> SlashFields(text).d, d |-> SlashFields(text).m]
    ELSE SlashFields(text)

\* C15: a blur on slash-delimited text reads the two leading numbers in the order
\* of the field's locale, in the range validation and in the date it commits.
C15_LocaleOrder ==
    [][(handleBlur /\ SlashMatch(Trim(inputValue)) /\ Len(YearPart(Trim(inputValue))) \in {0, 2, 4}
            /\ SlashFields(Trim(inputValue)).y >= 100)
        => IF RealDay(LocaleSlashFields(Trim(inputValue), locale))
           THEN fieldValue' = CanonicalOf(LocaleSlashFields(Trim(inputValue), locale))
           ELSE ~(LocaleSlashFields(Trim(inputValue), locale).m \in 1..12)
                    => metaError' = InvalidDateFormat]_vars

\* text that is a shortcut token: d, m or y and then digits only, in either case,
\* spaces around it ignored
IsShortcutToken(text) ==
    /\ Trim(text) # EMPTY
    /\ Head(ToLowerCase(Trim(text))) \in {"d", "m", "y"}
    /\ AllDigits(Tail(Trim(text)))

\* the count of a shortcut token, 0 when it has no digits
ShortcutCount(text) == IF Len(Trim(text)) = 1 THEN 0 ELSE ToNumber(Tail(Trim(text)))

\* a calendar day and n days
PlusDays(f, n) == CivilFromDays(DaysFromCivil(f.y, f.m, f.d) + n)

\* the month n months after the month of a calendar day
TargetMonth(f, n) ==
    [y |-> f.y + (f.m - 1 + n) \div 12, m |-> ((f.m - 1 + n) % 12) + 1]

\* a calendar day and n months, the day clamped to the target month
PlusMonths(f, n) ==
    [y |-> TargetMonth(f, n).y,
     m |-> TargetMonth(f, n).m,
     d |-> IF f.d > DaysInMonth(TargetMonth(f, n).y, TargetMonth(f, n).m)
           THEN DaysInMonth(TargetMonth(f, n).y, TargetMonth(f, n).m)
           ELSE f.d]

\* the calendar day a shortcut token names on the day `today`
ShortcutTarget(text, today) ==
    IF Head(ToLowerCase(Trim(text))) = "d" THEN PlusDays(today, ShortcutCount(text))
    ELSE IF Head(ToLowerCase(Trim(text))) = "m" THEN PlusMonths(today, ShortcutCount(text))
    ELSE PlusMonths(today, 12 * ShortcutCount(text))

\* C16: with the current date T, committing a shortcut token (by blur, Tab or
\* Enter) stores T plus n days for "d<n>", T plus n months for "m<n>" and T plus
\* n years for "y<n>", n being 0 when the token has no digits.
C16_ShortcutResolution ==
    [][((handleBlur \/ handleKeyDownShortcut) /\ IsShortcutToken(inputValue))
        => fieldValue' = CanonicalOf(ShortcutTarget(inputValue, LocalFields(now)))]_vars

C16_Witness ==
    /\ now = MakeTime(2024, 11, 31, 20, 0) /\ isFocused /\ ~touched /\ changes = 1
    /\ fieldValue = CanonicalOf(LocalFields(now))

\* the last day of the month n months after the month of a calendar day
LastDayOfTarget(f, n) ==
    [y |-> TargetMonth(f, n).y, m |-> TargetMonth(f, n).m,
     d |-> DaysInMonth(TargetMonth(f, n).y, TargetMonth(f, n).m)]

\* the months a month or year shortcut token counts
ShortcutMonths(text) ==
    IF Head(ToLowerCase(Trim(text))) = "m" THEN ShortcutCount(text) ELSE 12 * ShortcutCount(text)

\* C17: committing a month or year shortcut on a day of the month that the target
\* month does not have stores the last day of the target month, never a day of
\* the month after it.
C17_ShortcutClamps ==
    [][((handleBlur \/ handleKeyDownShortcut) /\ IsShortcutToken(inputValue)
            /\ Head(ToLowerCase(Trim(inputValue))) \in {"m", "y"}
            /\ LocalFields(now).d > LastDayOfTarget(LocalFields(now), ShortcutMonths(inputValue)).d)
        => /\ IsCanonicalMidnight(fieldValue')
           /\ PrefixFields(fieldValue') = LastDayOfTarget(LocalFields(now), ShortcutMonths(inputValue))]_vars

C17_Witness ==
    /\ now = MakeTime(2024, 1, 29, 12, 0) /\ changes = 1 /\ lastWritten = fieldValue
    /\ fieldValue = CanonicalOf([y |-> 2025, m |-> 2, d |-> 28])

\* the months a Ctrl+Arrow key moves by
NavMonths(key) ==
    IF key = "ArrowLeft" THEN -1 ELSE IF key = "ArrowRight" THEN 1 ELSE IF key = "ArrowUp" THEN 12 ELSE -12

\* C18: with a date committed, Ctrl+Left/Right commits that date a month earlier
\* or later and Ctrl+Up/Down a year later or earlier, the day of month kept or
\* clamped to the last day of the target month, and the display buffer shows the
\* new date.
C18_NavigationShifts ==
    [][(handleKeyDownNav /\ IsCanonicalMidnight(fieldValue))
        => \E key \in {"ArrowLeft", "ArrowRight", "ArrowUp", "ArrowDown"} :
            /\ fieldValue' = CanonicalOf(PlusMonths(PrefixFields(fieldValue), NavMonths(key)))
            /\ inputValue' = RenderOf(PlusMonths(PrefixFields(fieldValue), NavMonths(key)), locale)]_vars

\* C19: with no date committed, Ctrl+Arrow changes nothing: not the committed
\* value, not the display buffer with whatever uncommitted text it holds, not the
\* error, and helpers.setValue is not called.
C19_NavigationWithoutValue ==
    [][(handleKeyDownNav /\ fieldValue = NULL)
        => UNCHANGED <<fieldValue, inputValue, metaError, lastWritten>>]_vars

C19_Witness ==
    /\ isFocused /\ ~touched /\ fieldValue = NULL /\ inputValue = T_full
    /\ lastWritten = UNDEFINED /\ ENABLED handleKeyDownNav

\* C20: the clear action, in any state and whatever defaultValue the field was
\* mounted with, leaves the committed value null, no error, and the display
\* buffer empty after the effects have run.
C20_ClearEmptiesField ==
    [][clearDate => fieldValue' = NULL /\ metaError' = UNDEFINED /\ inputValue' = EMPTY]_vars

\* the short date of a committed value in a locale, the empty string for null
RenderDisplay(value, loc) ==
    IF value = NULL THEN EMPTY ELSE RenderOf(PrefixFields(value), loc)

\* C21: whenever the sync effect runs (at mount and when the committed value
\* changes), the display buffer becomes the locale's short date of the committed
\* date, zero-padded MM/DD/YYYY in US English, and the empty string for null.
C21_DisplayRendering ==
    [][(Mount \/ fieldValue' # fieldValue)
        => inputValue' = RenderDisplay(fieldValue', locale)]_vars

\* the part of a tag before its first "-"
PrimaryOf(tag) ==
    IF \E i \in 1..Len(tag) : tag[i] = "-"
    THEN SubSeq(tag, 1, (CHOOSE i \in 1..Len(tag) : tag[i] = "-" /\ \A j \in 1..(i - 1) : tag[j] # "-") - 1)
    ELSE tag

\* the tags the table has an entry for, and their entries
TableTags ==
    {<<"e", "n", "-", "u", "s">>, <<"e", "n", "-", "g", "b">>, <<"f", "r">>, <<"d", "e">>, <<"e", "s">>,
     <<"i", "t">>, <<"j", "a">>, <<"z", "h", "-", "c", "n">>, <<"z", "h", "-", "t", "w">>,
     <<"p", "t", "-", "b", "r">>}

TableLocales == {"enUS", "enGB", "fr", "de", "es", "it", "ja", "zhCN", "zhTW", "ptBR"}

\* C22: the locale resolver is total and case-insensitive: it returns the table's
\* entry for the lowercased tag when there is one, else the entry for the
\* lowercased primary subtag when there is one, else US English.
C22_LocaleResolver ==
    [][(DetectLocale /\ locale = "undefined" /\ cStr # EMPTY)
        => /\ locale' \in TableLocales
           /\ locale' = getLocaleFromBrowser(ToLowerCase(cStr))
           /\ ToLowerCase(cStr) \in TableTags => locale' = localeMap(ToLowerCase(cStr))
           /\ (ToLowerCase(cStr) \notin TableTags /\ PrimaryOf(ToLowerCase(cStr)) \in TableTags)
                => locale' = localeMap(PrimaryOf(ToLowerCase(cStr)))
           /\ (ToLowerCase(cStr) \notin TableTags /\ PrimaryOf(ToLowerCase(cStr)) \notin TableTags)
                => locale' = "enUS"]_vars

C22_Witness ==
    /\ pc = "locale" /\ cStep = "resolved" /\ locale = "zhTW"
    /\ cStr = <<"Z", "H", "-", "T", "W">>

\* a defaultValue the mount effect can read a date from
ParseableDefault(value) ==
    /\ IsString(value) /\ Trim(value) # EMPTY
    /\ \/ IsoPrefixMatch(value)
       \/ /\ LocalizedMatch(value)
          /\ TypedFields(value).m \in 1..12 /\ TypedFields(value).d \in 1..31

\* C23: at mount a defined defaultValue takes precedence over the form's initial
\* value: a parseable string replaces it with a normalized date, any other
\* defined defaultValue sets the value to null; when defaultValue is undefined
\* the initial value is left as it is and helpers.setValue is not called.
C23_DefaultValuePrecedence ==
    [][Mount
        => /\ defaultValue = UNDEFINED => (fieldValue' = fieldValue /\ lastWritten' = UNDEFINED)
           /\ ParseableDefault(defaultValue)
                => (IsCanonicalMidnight(fieldValue') /\ lastWritten' = fieldValue'
                    /\ \A other \in InitialValues : fieldValue' = MountEffect(other))
           /\ (defaultValue # UNDEFINED /\ ~ParseableDefault(defaultValue))
                => (fieldValue' = NULL /\ lastWritten' = NULL)]_vars

C23_Witness ==
    /\ pc = "mounted" /\ defaultValue = D_padded /\ fieldValue = NULL /\ lastWritten = NULL
    /\ inputValue = EMPTY

\* C24: selecting a day in the calendar's day view commits UTC midnight of the
\* selected calendar date, shows that date in the display buffer, clears the
\* error and closes the popup.
C24_DaySelectionCommits ==
    [][(handleDateChange /\ calendarView = "day")
        => \E day \in CalendarDays :
            /\ fieldValue' = CanonicalOf(day)
            /\ inputValue' = RenderOf(day, locale)
            /\ metaError' = UNDEFINED
            /\ ~open']_vars

\* the year, month and day that text names in the locale's short-date grammar:
\* three numbers, the year as written, day and month in the locale's order
LocaleGrammarFields(text, loc) ==
    [y |-> ToNumber(Split(text, "/")[3]),
     m |-> ToNumber(Split(text, "/")[IF loc = "enGB" THEN 2 ELSE 1]),
     d |-> ToNumber(Split(text, "/")[IF loc = "enGB" THEN 1 ELSE 2])]

\* text of the locale's short-date grammar that names a day of the calendar
LocaleGrammarMatch(text, loc) ==
    /\ Len(Split(text, "/")) = 3
    /\ \A i \in 1..3 : Split(text, "/")[i] # EMPTY /\ AllDigits(Split(text, "/")[i])
    /\ Len(Split(text, "/")[1]) <= 2 /\ Len(Split(text, "/")[2]) <= 2 /\ Len(Split(text, "/")[3]) <= 4
    /\ RealDay(LocaleGrammarFields(text, loc))

\* a slash date of one of the three patterns: no year, 2-digit year, 4-digit year
SlashPattern(text) == SlashMatch(text) /\ Len(YearPart(text)) \in {0, 2, 4}

\* C25: a blur tries the shortcut first and the flexible grammars only for text
\* that is no shortcut token; a slash date that fails the range validation ends
\* in the error though the locale grammar would read it; a slash date of one of
\* the three patterns is read by that pattern, month first; the locale grammar
\* reads only text that is of none of the three patterns.
C25_GrammarPrecedence ==
    [][(handleBlur /\ Trim(inputValue) # EMPTY)
        => IF IsShortcutToken(inputValue)
           THEN fieldValue' = CanonicalOf(ShortcutTarget(inputValue, LocalFields(now)))
           ELSE IF SlashMatch(Trim(inputValue)) /\ ~(SlashFields(Trim(inputValue)).m \in 1..12
                                                       /\ SlashFields(Trim(inputValue)).d \in 1..31)
           THEN metaError' = InvalidDateFormat /\ fieldValue' = fieldValue
           ELSE IF SlashPattern(Trim(inputValue))
           THEN RealDay(SlashFields(Trim(inputValue)))
                    => fieldValue' = CanonicalOf(SlashFields(Trim(inputValue)))
           ELSE IF LocaleGrammarMatch(Trim(inputValue), locale)
           THEN fieldValue' = CanonicalOf(LocaleGrammarFields(Trim(inputValue), locale))
           ELSE metaError' = InvalidDateFormat /\ fieldValue' = fieldValue]_vars

C25_Witness ==
    /\ locale = "enGB" /\ inputValue = G_dayfirst /\ metaError = InvalidDateFormat
    /\ touched /\ ~isFocused /\ fieldValue = NULL

\* C26: while the calendar shows the year or month view, a selection changes
\* neither the committed value nor the display buffer and does not close the
\* popup; a selection changes the committed value only in the day view.
C26_YearMonthSelectionInert ==
    [][handleDateChange
        => /\ calendarView # "day" => (UNCHANGED <<fieldValue, inputValue, metaError, lastWritten>> /\ open')
           /\ fieldValue' # fieldValue => calendarView = "day"]_vars

C26_Witness ==
    /\ open /\ calendarView = "year" /\ IsString(fieldValue) /\ metaError = InvalidDateFormat
    /\ ENABLED handleDateChange

\* C27: opening the calendar sets its view to 'day', whatever view it was in when
\* it was last closed, so a selection made right after opening is committed as a
\* day selection.
C27_OpenResetsView ==
    [][handleOpenCalendar
        => /\ open' /\ calendarView' = "day"
           /\ UNCHANGED <<fieldValue, inputValue, metaError, lastWritten>>]_vars

C27_Witness ==
    /\ pc = "mounted" /\ ~open /\ ~isFocused /\ calendarView = "month"
    /\ ENABLED handleOpenCalendar

\* C28: a Tab or Enter keydown commits only when the trimmed text is a shortcut
\* token; on any other text the keydown changes neither the committed value nor
\* the display buffer nor the error, and helpers.setValue is not called.
C28_TabEnterOnlyShortcuts ==
    [][handleKeyDownShortcut
        => /\ ~IsShortcutToken(inputValue) => UNCHANGED <<fieldValue, inputValue, metaError, lastWritten>>
           /\ IsShortcutToken(inputValue)
                => (lastWritten' = fieldValue' /\ IsCanonicalMidnight(fieldValue') /\ metaError' = UNDEFINED)]_vars

C28_Witness ==
    /\ isFocused /\ inputValue = T_noyear /\ fieldValue = NULL /\ lastWritten = UNDEFINED
    /\ ENABLED handleKeyDownShortcut

\* C29: parseShortcut trims and lowercases its input and matches the whole of it
\* against ^([dmy])(\d*)$: inputs that differ only in letter case or surrounding
\* spaces resolve to the same date, a token resolves to its target day, and every
\* other input gives null.
C29_ParseShortcutMatching ==
    (pc = "shortcut" /\ cStep = "resolved")
        => /\ cOut = parseShortcut(ToLowerCase(Trim(cStr)))
           /\ IsShortcutToken(cStr) <=> cOut # NullDate
           /\ IsShortcutToken(cStr) => LocalFields(cOut) = ShortcutTarget(cStr, LocalFields(now))

C29_Witness ==
    /\ pc = "shortcut" /\ cStep = "resolved" /\ cStr = <<"M", "1", "2", " ">>
    /\ now = MakeTime(2024, 1, 29, 12, 0) /\ tz = 330
    /\ LocalFields(cOut) = [y |-> 2025, m |-> 2, d |-> 28]

\* C30: a shortcut token resolves against the date the clock shows when it is
\* committed: once the date has advanced, a commit of the token stores the day
\* relative to the new date, which is not the day a commit of the same token
\* stored before the clock advanced.
C30_ShortcutUsesCurrentClock ==
    [][((handleBlur \/ handleKeyDownShortcut) /\ IsShortcutToken(inputValue)
            /\ LocalFields(now) # LocalFields(ClockStart))
        => /\ PrefixFields(fieldValue') = ShortcutTarget(inputValue, LocalFields(now))
           /\ PrefixFields(fieldValue') # ShortcutTarget(inputValue, LocalFields(ClockStart))]_vars

C30_Witness ==
    /\ now = MakeTime(2024, 11, 31, 20, 0) /\ isFocused /\ ~touched /\ changes = 2
    /\ inputValue = RenderOf(PlusDays(LocalFields(now), 1), locale)
    /\ fieldValue = CanonicalOf(PlusDays(LocalFields(now), 1))

\* C31: after a successful commit, a blur on the display text as the component
\* left it changes neither the committed value nor the display buffer and sets
\* no error, in month-first and in day-first locales.
C31_RecommitIdempotent ==
    [][(handleBlur /\ IsString(fieldValue) /\ metaError = UNDEFINED /\ inputValue = SyncEffect(fieldValue))
        => /\ fieldValue' = fieldValue
           /\ inputValue' = inputValue
           /\ metaError' = UNDEFINED]_vars

\* C32: in every state that holds a committed value with no error and no focus
\* (the state a successful commit and the sync effect leave), the display buffer
\* is the locale rendering of the calendar date in the committed value, in every
\* timezone.
C32_DisplayMatchesCommitted ==
    (pc = "mounted" /\ IsString(fieldValue) /\ metaError = UNDEFINED /\ ~isFocused)
        => inputValue = RenderOf(PrefixFields(fieldValue), locale)

\* C33: every step that changes the committed value leaves the format error
\* cleared, and every step that leaves the error set leaves the committed value
\* as it was: while "Invalid date format" is shown, the committed value is the
\* one from before the failed attempt.
C33_ValueChangeClearsError ==
    [][/\ fieldValue' # fieldValue => metaError' = UNDEFINED
       /\ metaError' = InvalidDateFormat => fieldValue' = fieldValue]_vars

\* the error is shown over a committed date and a handler is about to replace
\* that date
C33_Witness ==
    /\ metaError = InvalidDateFormat
    /\ IsString(fieldValue)
    /\ isFocused /\ changes < MaxChanges
    /\ handleNavOutcome("ArrowRight").value # fieldValue
    /\ handleNavOutcome("ArrowRight").error = UNDEFINED

\* C34: when the display buffer holds typed text that is not the display of the
\* committed date, Ctrl+Arrow navigates from the committed date: it commits that
\* date shifted by the key's months and replaces the typed text with the
\* rendering of the shifted date.
C34_NavigationFromCommitted ==
    [][(handleKeyDownNav /\ IsCanonicalMidnight(fieldValue) /\ inputValue # SyncEffect(fieldValue))
        => \E key \in {"ArrowLeft", "ArrowRight", "ArrowUp", "ArrowDown"} :
            LET shifted == PlusMonths(PrefixFields(fieldValue), NavMonths(key))
            IN  /\ fieldValue' = CanonicalOf(shifted)
                /\ inputValue' = RenderOf(shifted, locale)
                /\ metaError' = UNDEFINED]_vars

(***************************************************************************)
(* Pairs of opposite navigation keys: Ctrl+ArrowRight then Ctrl+ArrowLeft, *)
(* Ctrl+ArrowUp then Ctrl+ArrowDown, from committed dates early and late   *)
(* in their month.  cStr keeps the value committed before the first key    *)
(* and cStep the first key, then "back" once the opposite key was pressed. *)
(***************************************************************************)
NavValues ==
    {toISOString(DateUTC(2025, 6, 8, 0)), toISOString(DateUTC(2025, 0, 28, 0)),
     toISOString(DateUTC(2024, 11, 15, 0)), toISOString(DateUTC(2024, 0, 31, 0)),
     toISOString(DateUTC(2024, 1, 29, 0))}

\* the key that undoes a navigation key
OppositeKey(key) ==
    IF key = "ArrowRight" THEN "ArrowLeft"
    ELSE IF key = "ArrowLeft" THEN "ArrowRight"
    ELSE IF key = "ArrowUp" THEN "ArrowDown"
    ELSE "ArrowUp"

NavInit ==
    /\ tz \in TZOffsets
    /\ locale \in Locales
    /\ defaultValue = UNDEFINED
    /\ now = ClockStart
    /\ pc = "unmounted"
    /\ fieldValue \in NavValues
    /\ metaError = UNDEFINED
    /\ touched = FALSE
    /\ inputValue = EMPTY
    /\ open = FALSE
    /\ isFocused = FALSE
    /\ calendarView = "day"
    /\ lastWritten = UNDEFINED
    /\ changes = 0
    /\ CodecIdle

\* handleKeyDown with Ctrl and the given arrow key
handleKeyDownNavKey(key) ==
    /\ pc = "mounted" /\ isFocused
    /\ Apply(handleNavOutcome(key))
    /\ UNCHANGED <<touched, open, isFocused, calendarView>>
    /\ UNCHANGED <<pc, envVars>>

\* the first key of a pair
NavForth ==
    /\ cStep = "idle"
    /\ \E key \in {"ArrowRight", "ArrowUp"} :
        /\ handleKeyDownNavKey(key)
        /\ cStep' = key
    /\ cStr' = fieldValue
    /\ UNCHANGED <<cIn, cOut>>

\* the opposite key, pressed next
NavBack ==
    /\ cStep \in {"ArrowRight", "ArrowUp"}
    /\ handleKeyDownNavKey(OppositeKey(cStep))
    /\ cStep' = "back"
    /\ UNCHANGED <<cIn, cStr, cOut>>

NavNext ==
    \/ Mount
    \/ handleFocus
    \/ NavForth
    \/ NavBack

NavSpec == NavInit /\ [][NavNext]_vars

\* C35: after Ctrl+ArrowRight then Ctrl+ArrowLeft, or Ctrl+ArrowUp then
\* Ctrl+ArrowDown, from a committed date whose day of month is at most 28, the
\* committed value is the original one again.
C35_NavigationInvertible ==
    (cStep = "back" /\ IsCanonicalMidnight(cStr) /\ PrefixFields(cStr).d <= 28)
        => fieldValue = cStr

====
